---- MODULE Spec2Model ----
(***************************************************************************)
(* Model of cmd/dashboard.go: DashboardCmd.Run, the `dapr dashboard`       *)
(* command.  The main flow is modelled statement group by statement group  *)
(* (program counter pc), the interrupt goroutine of lines 126-129 as a     *)
(* second process (gpc), and the delivery of os.Interrupt as an            *)
(* environment action.  trace records, in program order, every print and   *)
(* every call to a collaborator.                                           *)
(***************************************************************************)
EXTENDS Integers, Sequences, FiniteSets, TLC

\* ---------------------------------------------------------------- bounds
MaxInterrupts == 2
MaxExplicitStops == 2

\* ------------------------------------------------------------- constants
dashboardSvc == "dapr-dashboard"
defaultHost == "localhost"
defaultLocalPort == 8080
daprSystemNamespace == "dapr-system"
defaultNamespace == "default"
remotePort == 8080
\* capacity of the channel made at line 101
SignalBuf == 1

\* ---------------------------------------------------------------- inputs
\* values of the --namespace flag
UserNamespaces == {"", "custom", daprSystemNamespace, defaultNamespace}
\* namespaces of the cluster in which the dashboard pod may be running
ClusterNamespaces == {"custom", daprSystemNamespace, defaultNamespace, "other-ns"}
\* values of the --port flag
Ports == {-1, 0, defaultLocalPort, 9090}

VARIABLES
    dashboardNamespace,   \* flag -n
    dashboardLocalPort,   \* flag -p
    dashboardVersion,     \* flag -v
    kubernetesMode,       \* flag -k
    present,              \* cluster: namespaces with a running dashboard pod
    pc,                   \* position of the main flow in Run
    exitCode,             \* -1 while the process runs, else its exit status
    namespaces,           \* local: candidate list (line 69)
    idx,                  \* local: position of the range loop (line 78)
    foundNamespace,       \* local (line 77)
    notified,             \* signal.Notify registered (line 102)
    sigStopped,           \* signal.Stop has run (deferred, line 103)
    signals,              \* number of signals buffered in the channel
    delivered,            \* interrupts delivered by the OS so far
    portForward,          \* the tunnel (line 105)
    explicitStops,        \* stop requests made by other holders of the tunnel
    gpc,                  \* position of the goroutine of lines 126-129
    goroutines,           \* number of goroutines started by Run
    trace                 \* prints and collaborator calls, in order

vars == <<dashboardNamespace, dashboardLocalPort, dashboardVersion,
          kubernetesMode, present, pc, exitCode, namespaces, idx,
          foundNamespace, notified, sigStopped, signals, delivered,
          portForward, explicitStops, gpc, goroutines, trace>>

flags == <<dashboardNamespace, dashboardLocalPort, dashboardVersion,
           kubernetesMode, present>>

\* one entry of trace
Ev(e, n, o, p) == [ev |-> e, ns |-> n, ok |-> o, port |-> p]

Log(e, n, o, p) == Append(trace, Ev(e, n, o, p))

\* the tunnel before NewPortForward has returned one
NilPortForward == [state |-> "nil", ns |-> "", port |-> 0, fired |-> 0, stops |-> 0]

\* os.Exit(code): the process ends at once, deferred calls do not run and
\* the goroutine dies with the process
Exit(code) ==
    /\ pc' = "exited"
    /\ exitCode' = code

Alive == pc \notin {"exited", "done"}

\* --------------------------------------------------------- collaborators
\* kubernetes.CheckPodExists(client, ns, nil, dashboardSvc): the possible
\* results <<ok, namespace>>.  An empty ns lists the pods of every
\* namespace; a failed query reports not found.
CheckPodExists(ns) ==
    {<<FALSE, "">>}
      \cup (IF ns = ""
              THEN {<<TRUE, n>> : n \in present}
              ELSE IF ns \in present THEN {<<TRUE, ns>>} ELSE {})

\* portForward.Stop(): fires the StopSignal of a running tunnel once;
\* a request on a stopped tunnel changes nothing
PortForwardStop_Refire(pf) ==
    [pf EXCEPT !.state = "Stopped", !.fired = @ + 1, !.stops = @ + 1]

PortForwardStop(pf) ==
    IF pf.state = "Running"
      THEN [pf EXCEPT !.state = "Stopped", !.fired = @ + 1, !.stops = @ + 1]
      ELSE [pf EXCEPT !.stops = @ + 1]

\* ---------------------------------------------------------------- Init
Init ==
    /\ dashboardNamespace \in UserNamespaces
    /\ dashboardLocalPort \in Ports
    /\ dashboardVersion \in BOOLEAN
    /\ kubernetesMode \in BOOLEAN
    /\ present \in SUBSET ClusterNamespaces
    /\ pc = "start"
    /\ exitCode = -1
    /\ namespaces = <<>>
    /\ idx = 0
    /\ foundNamespace = ""
    /\ notified = FALSE
    /\ sigStopped = FALSE
    /\ signals = 0
    /\ delivered = 0
    /\ portForward = NilPortForward
    /\ explicitStops = 0
    /\ gpc = "none"
    /\ goroutines = 0
    /\ trace = <<>>

\* ------------------------------------------------------------ main flow
\* lines 50-53
CheckVersion_AfterPort ==
    /\ pc = "start"
    /\ IF dashboardLocalPort <= 0
         THEN /\ trace' = Log("print_invalid_port", "", FALSE, dashboardLocalPort)
              /\ Exit(1)
         ELSE IF dashboardVersion
                THEN /\ trace' = Log("print_version", "", TRUE, 0)
                     /\ Exit(0)
                ELSE /\ pc' = "port"
                     /\ UNCHANGED <<trace, exitCode>>
    /\ UNCHANGED <<flags, namespaces, idx, foundNamespace, notified,
                   sigStopped, signals, delivered, portForward,
                   explicitStops, gpc, goroutines>>

CheckVersion ==
    /\ pc = "start"
    /\ IF dashboardVersion
         THEN /\ trace' = Log("print_version", "", TRUE, 0)
              /\ Exit(0)
         ELSE /\ pc' = "port"
              /\ UNCHANGED <<trace, exitCode>>
    /\ UNCHANGED <<flags, namespaces, idx, foundNamespace, notified,
                   sigStopped, signals, delivered, portForward,
                   explicitStops, gpc, goroutines>>

\* lines 55-58
CheckPort_ZeroAllowed ==
    /\ pc = "port"
    /\ IF dashboardLocalPort < 0
         THEN /\ trace' = Log("print_invalid_port", "", FALSE, dashboardLocalPort)
              /\ Exit(1)
         ELSE /\ pc' = "mode"
              /\ UNCHANGED <<trace, exitCode>>
    /\ UNCHANGED <<flags, namespaces, idx, foundNamespace, notified,
                   sigStopped, signals, delivered, portForward,
                   explicitStops, gpc, goroutines>>

CheckPort_ClusterOnly ==
    /\ pc = "port"
    /\ IF kubernetesMode /\ dashboardLocalPort <= 0
         THEN /\ trace' = Log("print_invalid_port", "", FALSE, dashboardLocalPort)
              /\ Exit(1)
         ELSE /\ pc' = "mode"
              /\ UNCHANGED <<trace, exitCode>>
    /\ UNCHANGED <<flags, namespaces, idx, foundNamespace, notified,
                   sigStopped, signals, delivered, portForward,
                   explicitStops, gpc, goroutines>>

CheckPort ==
    /\ pc = "port"
    /\ IF dashboardLocalPort <= 0
         THEN /\ trace' = Log("print_invalid_port", "", FALSE, dashboardLocalPort)
              /\ Exit(1)
         ELSE /\ pc' = "mode"
              /\ UNCHANGED <<trace, exitCode>>
    /\ UNCHANGED <<flags, namespaces, idx, foundNamespace, notified,
                   sigStopped, signals, delivered, portForward,
                   explicitStops, gpc, goroutines>>

\* lines 60-65: cluster mode, kubernetes.GetKubeConfigClient()
GetKubeConfigClient ==
    /\ pc = "mode"
    /\ kubernetesMode
    /\ \E ok \in BOOLEAN :
         IF ok
           THEN /\ trace' = Log("GetKubeConfigClient", "", TRUE, 0)
                /\ pc' = "namespaces"
                /\ UNCHANGED exitCode
           ELSE /\ trace' = Append(Log("GetKubeConfigClient", "", FALSE, 0),
                                   Ev("print_client_failed", "", FALSE, 0))
                /\ Exit(1)
    /\ UNCHANGED <<flags, namespaces, idx, foundNamespace, notified,
                   sigStopped, signals, delivered, portForward,
                   explicitStops, gpc, goroutines>>

\* lines 69-75: the candidate list
CandidateNamespaces_NoDedup(userNamespace) ==
    <<userNamespace, daprSystemNamespace, defaultNamespace>>

CandidateNamespaces(userNamespace) ==
    LET first  == <<userNamespace>>
        second == IF userNamespace # daprSystemNamespace
                    THEN Append(first, daprSystemNamespace) ELSE first
    IN  IF userNamespace # defaultNamespace
          THEN Append(second, defaultNamespace) ELSE second

\* lines 69-77
BuildNamespaces ==
    /\ pc = "namespaces"
    /\ namespaces' = CandidateNamespaces(dashboardNamespace)
    /\ foundNamespace' = ""
    /\ idx' = 1
    /\ pc' = "probe"
    /\ UNCHANGED <<flags, exitCode, notified, sigStopped, signals, delivered,
                   portForward, explicitStops, gpc, goroutines, trace>>

\* lines 78-84: one iteration of the range loop
ProbeNamespace ==
    /\ pc = "probe"
    /\ idx <= Len(namespaces)
    /\ LET namespace == namespaces[idx] IN
       \E r \in CheckPodExists(namespace) :
         /\ trace' = Log("probe", namespace, r[1], 0)
         /\ IF r[1]
              THEN /\ foundNamespace' = namespace
                   /\ pc' = "resolved"
                   /\ UNCHANGED idx
              ELSE /\ idx' = idx + 1
                   /\ pc' = IF idx + 1 > Len(namespaces) THEN "resolved" ELSE "probe"
                   /\ UNCHANGED foundNamespace
    /\ UNCHANGED <<flags, exitCode, namespaces, notified, sigStopped, signals,
                   delivered, portForward, explicitStops, gpc, goroutines>>

\* lines 87-98: the search of all namespaces
FallbackSearch_Adopt ==
    /\ pc = "resolved"
    /\ foundNamespace = ""
    /\ \E r \in CheckPodExists("") :
         IF r[1]
           THEN /\ trace' = Append(Log("fallback_probe", "", TRUE, 0),
                                   Ev("print_advisory", r[2], TRUE, 0))
                /\ foundNamespace' = r[2]
                /\ UNCHANGED <<pc, exitCode>>
           ELSE /\ trace' = Append(Log("fallback_probe", "", FALSE, 0),
                                   Ev("print_not_in_cluster", "", FALSE, 0))
                /\ Exit(1)
                /\ UNCHANGED foundNamespace
    /\ UNCHANGED <<flags, namespaces, idx, notified, sigStopped,
                   signals, delivered, portForward, explicitStops, gpc,
                   goroutines>>

FallbackSearch_ExitZero ==
    /\ pc = "resolved"
    /\ foundNamespace = ""
    /\ \E r \in CheckPodExists("") :
         IF r[1]
           THEN /\ trace' = Append(Log("fallback_probe", "", TRUE, 0),
                                   Ev("print_advisory", r[2], TRUE, 0))
                /\ Exit(0)
           ELSE /\ trace' = Append(Log("fallback_probe", "", FALSE, 0),
                                   Ev("print_not_in_cluster", "", FALSE, 0))
                /\ Exit(1)
    /\ UNCHANGED <<flags, namespaces, idx, foundNamespace, notified, sigStopped,
                   signals, delivered, portForward, explicitStops, gpc,
                   goroutines>>

FallbackSearch ==
    /\ pc = "resolved"
    /\ foundNamespace = ""
    /\ \E r \in CheckPodExists("") :
         /\ trace' = Append(Log("fallback_probe", "", r[1], 0),
                            IF r[1] THEN Ev("print_advisory", r[2], TRUE, 0)
                                    ELSE Ev("print_not_in_cluster", "", FALSE, 0))
         /\ Exit(1)
    /\ UNCHANGED <<flags, namespaces, idx, foundNamespace, notified, sigStopped,
                   signals, delivered, portForward, explicitStops, gpc,
                   goroutines>>

\* lines 101-103: signal.Notify, and signal.Stop deferred to the return
NotifySignals ==
    /\ pc = "resolved"
    /\ foundNamespace # ""
    /\ notified' = TRUE
    /\ signals' = 0
    /\ trace' = Log("signal.Notify", "", TRUE, 0)
    /\ pc' = "newpf"
    /\ UNCHANGED <<flags, exitCode, namespaces, idx, foundNamespace,
                   sigStopped, delivered, portForward, explicitStops, gpc,
                   goroutines>>

\* lines 105-117
NewPortForward ==
    /\ pc = "newpf"
    /\ \E ok \in BOOLEAN :
         IF ok
           THEN /\ portForward' = [state |-> "Created", ns |-> foundNamespace,
                                   port |-> dashboardLocalPort, fired |-> 0,
                                   stops |-> 0]
                /\ trace' = Log("NewPortForward", foundNamespace, TRUE,
                                dashboardLocalPort)
                /\ pc' = "init"
                /\ UNCHANGED exitCode
           ELSE /\ trace' = Append(Log("NewPortForward", foundNamespace, FALSE,
                                       dashboardLocalPort),
                                   Ev("print_tunnel_failed", "", FALSE, 0))
                /\ Exit(1)
                /\ UNCHANGED portForward
    /\ UNCHANGED <<flags, namespaces, idx, foundNamespace, notified,
                   sigStopped, signals, delivered, explicitStops, gpc,
                   goroutines>>

\* lines 120-123: portForward.Init(); an initialized tunnel is running
InitPortForward_AnnounceEarly ==
    /\ pc = "init"
    /\ \E ok \in BOOLEAN :
         IF ok
           THEN /\ portForward' = [portForward EXCEPT !.state = "Running"]
                /\ trace' = Append(Log("print_available", "", TRUE,
                                       dashboardLocalPort),
                                   Ev("Init", portForward.ns, TRUE,
                                      portForward.port))
                /\ pc' = "go"
                /\ UNCHANGED exitCode
           ELSE /\ trace' = Log("print_available", "", TRUE, dashboardLocalPort)
                              \o <<Ev("Init", portForward.ns, FALSE,
                                      portForward.port),
                                   Ev("print_init_failed", "", FALSE, 0)>>
                /\ Exit(1)
                /\ UNCHANGED portForward
    /\ UNCHANGED <<flags, namespaces, idx, foundNamespace, notified,
                   sigStopped, signals, delivered, explicitStops, gpc,
                   goroutines>>

InitPortForward_IgnoreError ==
    /\ pc = "init"
    /\ \E ok \in BOOLEAN :
         IF ok
           THEN /\ portForward' = [portForward EXCEPT !.state = "Running"]
                /\ trace' = Log("Init", portForward.ns, TRUE, portForward.port)
           ELSE /\ trace' = Append(Log("Init", portForward.ns, FALSE,
                                       portForward.port),
                                   Ev("print_init_failed", "", FALSE, 0))
                /\ UNCHANGED portForward
    /\ pc' = "go"
    /\ UNCHANGED <<flags, exitCode, namespaces, idx, foundNamespace, notified,
                   sigStopped, signals, delivered, explicitStops, gpc,
                   goroutines>>

InitPortForward ==
    /\ pc = "init"
    /\ \E ok \in BOOLEAN :
         IF ok
           THEN /\ portForward' = [portForward EXCEPT !.state = "Running"]
                /\ trace' = Log("Init", portForward.ns, TRUE, portForward.port)
                /\ pc' = "go"
                /\ UNCHANGED exitCode
           ELSE /\ trace' = Append(Log("Init", portForward.ns, FALSE,
                                       portForward.port),
                                   Ev("print_init_failed", "", FALSE, 0))
                /\ Exit(1)
                /\ UNCHANGED portForward
    /\ UNCHANGED <<flags, namespaces, idx, foundNamespace, notified,
                   sigStopped, signals, delivered, explicitStops, gpc,
                   goroutines>>

\* line 126: go func() { ... }()
StartGoroutine ==
    /\ pc = "go"
    /\ gpc' = "recv"
    /\ goroutines' = goroutines + 1
    /\ pc' = "announce"
    /\ UNCHANGED <<flags, exitCode, namespaces, idx, foundNamespace, notified,
                   sigStopped, signals, delivered, portForward, explicitStops,
                   trace>>

\* lines 132-135: webURL is http://localhost:<dashboardLocalPort>
Announce ==
    /\ pc = "announce"
    /\ trace' = Append(Log("print_found", foundNamespace, TRUE, 0),
                       Ev("print_available", "", TRUE, dashboardLocalPort))
    /\ pc' = "browser"
    /\ UNCHANGED <<flags, exitCode, namespaces, idx, foundNamespace, notified,
                   sigStopped, signals, delivered, portForward, explicitStops,
                   gpc, goroutines>>

\* lines 137-141: browser.OpenURL(webURL)
OpenBrowser_Fatal ==
    /\ pc = "browser"
    /\ \E ok \in BOOLEAN :
         IF ok
           THEN /\ trace' = Log("OpenURL", "", TRUE, dashboardLocalPort)
                /\ pc' = "wait"
                /\ UNCHANGED exitCode
           ELSE /\ trace' = Append(Log("OpenURL", "", FALSE, dashboardLocalPort),
                                   Ev("print_browser_failed", "", FALSE, 0))
                /\ Exit(1)
    /\ UNCHANGED <<flags, namespaces, idx, foundNamespace, notified,
                   sigStopped, signals, delivered, portForward, explicitStops,
                   gpc, goroutines>>

OpenBrowser ==
    /\ pc = "browser"
    /\ \E ok \in BOOLEAN :
         trace' = IF ok
                    THEN Log("OpenURL", "", TRUE, dashboardLocalPort)
                    ELSE Log("OpenURL", "", FALSE, dashboardLocalPort)
                           \o <<Ev("print_browser_failed", "", FALSE, 0),
                                Ev("print_visit", "", FALSE, dashboardLocalPort)>>
    /\ pc' = "wait"
    /\ UNCHANGED <<flags, exitCode, namespaces, idx, foundNamespace, notified,
                   sigStopped, signals, delivered, portForward, explicitStops,
                   gpc, goroutines>>

\* line 143: <-portForward.GetStop(), then the return of Run, which runs the
\* deferred signal.Stop of line 103
WaitStop_NoBlock ==
    /\ pc = "wait"
    /\ sigStopped' = TRUE
    /\ trace' = Log("signal.Stop", "", TRUE, 0)
    /\ pc' = "done"
    /\ exitCode' = 0
    /\ UNCHANGED <<flags, namespaces, idx, foundNamespace, notified, signals,
                   delivered, portForward, explicitStops, gpc, goroutines>>

WaitStop ==
    /\ pc = "wait"
    /\ portForward.fired > 0
    /\ sigStopped' = TRUE
    /\ trace' = Log("signal.Stop", "", TRUE, 0)
    /\ pc' = "done"
    /\ exitCode' = 0
    /\ UNCHANGED <<flags, namespaces, idx, foundNamespace, notified, signals,
                   delivered, portForward, explicitStops, gpc, goroutines>>

\* lines 144-150: standalone mode
StandaloneRun_NoModeCheck ==
    /\ pc = "mode"
    /\ \E ok \in BOOLEAN :
         trace' = IF ok
                    THEN Log("standalone.Run", "", TRUE, dashboardLocalPort)
                    ELSE Append(Log("standalone.Run", "", FALSE, dashboardLocalPort),
                                Ev("print_not_installed", "", FALSE, 0))
    /\ pc' = "done"
    /\ exitCode' = 0
    /\ UNCHANGED <<flags, namespaces, idx, foundNamespace, notified,
                   sigStopped, signals, delivered, portForward, explicitStops,
                   gpc, goroutines>>

StandaloneRun_ExitOnError ==
    /\ pc = "mode"
    /\ ~kubernetesMode
    /\ \E ok \in BOOLEAN :
         IF ok
           THEN /\ trace' = Log("standalone.Run", "", TRUE, dashboardLocalPort)
                /\ pc' = "done"
                /\ exitCode' = 0
           ELSE /\ trace' = Append(Log("standalone.Run", "", FALSE,
                                       dashboardLocalPort),
                                   Ev("print_not_installed", "", FALSE, 0))
                /\ Exit(1)
    /\ UNCHANGED <<flags, namespaces, idx, foundNamespace, notified,
                   sigStopped, signals, delivered, portForward, explicitStops,
                   gpc, goroutines>>

StandaloneRun ==
    /\ pc = "mode"
    /\ ~kubernetesMode
    /\ \E ok \in BOOLEAN :
         trace' = IF ok
                    THEN Log("standalone.Run", "", TRUE, dashboardLocalPort)
                    ELSE Append(Log("standalone.Run", "", FALSE, dashboardLocalPort),
                                Ev("print_not_installed", "", FALSE, 0))
    /\ pc' = "done"
    /\ exitCode' = 0
    /\ UNCHANGED <<flags, namespaces, idx, foundNamespace, notified,
                   sigStopped, signals, delivered, portForward, explicitStops,
                   gpc, goroutines>>

\* ------------------------------------------------------------ goroutine
\* line 127: <-signals
GoReceive ==
    /\ Alive
    /\ gpc = "recv"
    /\ signals > 0
    /\ signals' = signals - 1
    /\ gpc' = "stop"
    /\ UNCHANGED <<flags, pc, exitCode, namespaces, idx, foundNamespace,
                   notified, sigStopped, delivered, portForward, explicitStops,
                   goroutines, trace>>

\* line 128: portForward.Stop()
GoStop_Loop ==
    /\ Alive
    /\ gpc = "stop"
    /\ portForward' = PortForwardStop(portForward)
    /\ trace' = Log("portForward.Stop", portForward.ns, TRUE, portForward.port)
    /\ gpc' = "recv"
    /\ UNCHANGED <<flags, pc, exitCode, namespaces, idx, foundNamespace,
                   notified, sigStopped, signals, delivered, explicitStops,
                   goroutines>>

GoStop_ExitProcess ==
    /\ Alive
    /\ gpc = "stop"
    /\ Exit(1)
    /\ gpc' = "done"
    /\ UNCHANGED <<flags, namespaces, idx, foundNamespace, notified,
                   sigStopped, signals, delivered, portForward, explicitStops,
                   goroutines, trace>>

GoStop ==
    /\ Alive
    /\ gpc = "stop"
    /\ portForward' = PortForwardStop(portForward)
    /\ trace' = Log("portForward.Stop", portForward.ns, TRUE, portForward.port)
    /\ gpc' = "done"
    /\ UNCHANGED <<flags, pc, exitCode, namespaces, idx, foundNamespace,
                   notified, sigStopped, signals, delivered, explicitStops,
                   goroutines>>

\* ----------------------------------------------------------- environment
\* The OS delivers os.Interrupt while the subscription of line 102 is in
\* force: the runtime sends it to the channel without blocking, so that a
\* signal that finds the buffer full is dropped.
Interrupt_Unbuffered ==
    /\ Alive
    /\ notified
    /\ ~sigStopped
    /\ delivered < MaxInterrupts
    /\ delivered' = delivered + 1
    /\ signals' = IF gpc = "recv" /\ signals < SignalBuf
                    THEN signals + 1 ELSE signals
    /\ UNCHANGED <<flags, pc, exitCode, namespaces, idx, foundNamespace,
                   notified, sigStopped, portForward, explicitStops, gpc,
                   goroutines, trace>>

Interrupt ==
    /\ Alive
    /\ notified
    /\ ~sigStopped
    /\ delivered < MaxInterrupts
    /\ delivered' = delivered + 1
    /\ signals' = IF signals < SignalBuf THEN signals + 1 ELSE signals
    /\ UNCHANGED <<flags, pc, exitCode, namespaces, idx, foundNamespace,
                   notified, sigStopped, portForward, explicitStops, gpc,
                   goroutines, trace>>

\* A stop request on the tunnel by another holder of the handle.
ExplicitStop ==
    /\ Alive
    /\ portForward.state \in {"Running", "Stopped"}
    /\ explicitStops < MaxExplicitStops
    /\ explicitStops' = explicitStops + 1
    /\ portForward' = PortForwardStop(portForward)
    /\ UNCHANGED <<flags, pc, exitCode, namespaces, idx, foundNamespace,
                   notified, sigStopped, signals, delivered, gpc, goroutines,
                   trace>>

\* ------------------------------------------------------- specifications
Main ==
    \/ CheckVersion
    \/ CheckPort
    \/ GetKubeConfigClient
    \/ BuildNamespaces
    \/ ProbeNamespace
    \/ FallbackSearch
    \/ NotifySignals
    \/ NewPortForward
    \/ InitPortForward
    \/ StartGoroutine
    \/ Announce
    \/ OpenBrowser
    \/ WaitStop
    \/ StandaloneRun

Goroutine ==
    \/ GoReceive
    \/ GoStop

Next ==
    \/ Main
    \/ Goroutine
    \/ Interrupt

Spec == Init /\ [][Next]_vars

\* the program with a main flow whose calls return and a goroutine that the
\* scheduler runs; the delivery of interrupts is not fair
SpecFair == Spec /\ WF_vars(Main) /\ WF_vars(Goroutine)

\* the program together with stop requests from other holders of the tunnel
NextStop ==
    \/ Next
    \/ ExplicitStop

SpecStop == Init /\ [][NextStop]_vars

\* ------------------------------------------------------ trace operators
\* positions of the entries of trace for event e
At(e) == {i \in 1..Len(trace) : trace[i].ev = e}

Count(e) == Cardinality(At(e))

\* the probes of the candidate loop (line 79), in order
Probes == SelectSeq(trace, LAMBDA x : x.ev = "probe")

\* some candidate probe reported found
CandidateFound == \E i \in 1..Len(Probes) : Probes[i].ok

\* every candidate was probed and none reported found
AllMissed ==
    /\ Len(namespaces) > 0
    /\ Len(Probes) = Len(namespaces)
    /\ \A i \in 1..Len(Probes) : ~Probes[i].ok

InitSucceeded == \E i \in At("Init") : trace[i].ok

InitFailed == \E i \in At("Init") : ~trace[i].ok

\* ================================================================ claims

\* C1: in cluster mode the candidates are probed one at a time in priority
\* order, no candidate is probed after the first one reported found, and
\* the tunnel is created for that candidate: once the run is past the
\* resolution, NewPortForward has been called with it.
C1_FirstFoundWins ==
    /\ Len(Probes) <= Len(namespaces)
    /\ \A i \in 1..Len(Probes) :
         /\ Probes[i].ns = namespaces[i]
         /\ Probes[i].ok => i = Len(Probes)
    /\ (CandidateFound /\ pc \notin {"probe", "resolved", "newpf"}) =>
         /\ Count("NewPortForward") = 1
         /\ \A i \in At("NewPortForward") : trace[i].ns = Probes[Len(Probes)].ns

\* C2: the candidate list has no duplicates, starts with the user-supplied
\* namespace and continues with those of dapr-system and default, in that
\* order, that differ from it; it has 3 entries when the user namespace is
\* neither of them and 2 when it is one of them.
C2_CandidateList ==
    idx > 0 =>
      /\ \A i, j \in 1..Len(namespaces) : i # j => namespaces[i] # namespaces[j]
      /\ namespaces[1] = dashboardNamespace
      /\ SubSeq(namespaces, 2, Len(namespaces))
           = SelectSeq(<<"dapr-system", "default">>,
                       LAMBDA n : n # dashboardNamespace)
      /\ Len(namespaces)
           = IF dashboardNamespace \in {"dapr-system", "default"} THEN 2 ELSE 3

C2_Witness ==
    /\ idx > 0
    /\ dashboardNamespace = "default"
    /\ namespaces = <<"default", "dapr-system">>

\* C3: with the version flag unset and a port of 0 or less, the run ends
\* with status 1 and nothing but the invalid-port message happens: no
\* client is built, no namespace is probed, no subscription, tunnel or
\* goroutine exists.
C3_InvalidPortFailsFast ==
    (~dashboardVersion /\ dashboardLocalPort <= 0) =>
      /\ pc \in {"start", "port", "exited"}
      /\ pc = "exited" => exitCode = 1
      /\ \A i \in 1..Len(trace) : trace[i].ev = "print_invalid_port"
      /\ ~notified
      /\ portForward = NilPortForward
      /\ gpc = "none"
      /\ namespaces = <<>>

C3_Witness ==
    /\ ~dashboardVersion
    /\ kubernetesMode
    /\ dashboardLocalPort = 0
    /\ pc = "exited"
    /\ exitCode = 1

\* C4: in cluster mode, when every candidate probe reported not found, the
\* run makes exactly one further probe, with the empty namespace, reports
\* either the namespace it discovered or the failure, and exits with
\* status 1 in both cases.
C4_FallbackOnce ==
    (kubernetesMode /\ AllMissed) =>
      /\ pc \in {"resolved", "exited"}
      /\ pc = "resolved" => Count("fallback_probe") = 0
      /\ pc = "exited" =>
           /\ exitCode = 1
           /\ Count("fallback_probe") = 1
           /\ Len(trace) = 1 + Len(namespaces) + 2
           /\ LET f == trace[Len(trace) - 1]
                  m == trace[Len(trace)]
              IN  /\ f.ev = "fallback_probe"
                  /\ f.ns = ""
                  /\ m.ev = IF f.ok THEN "print_advisory"
                                    ELSE "print_not_in_cluster"
                  /\ f.ok => m.ns \in present

C4_Witness ==
    /\ dashboardNamespace = "custom"
    /\ AllMissed
    /\ pc = "exited"
    /\ exitCode = 1
    /\ present = {"other-ns"}
    /\ trace[Len(trace)] = Ev("print_advisory", "other-ns", TRUE, 0)

\* C5: on a run in which some candidate probe reported found, the
\* cluster-wide fallback probe is not made and the run does not end in the
\* fallback exit.
C5_FallbackOnlyOnFailure ==
    CandidateFound =>
      /\ Count("fallback_probe") = 0
      /\ Count("print_advisory") = 0
      /\ Count("print_not_in_cluster") = 0

\* C6: on a run that takes the fallback path there is never a tunnel, a
\* call of NewPortForward, Init or Stop, a signal subscription or a
\* goroutine; the run has ended.
C6_NoTunnelOnFallback ==
    Count("fallback_probe") > 0 =>
      /\ pc = "exited"
      /\ portForward = NilPortForward
      /\ Count("NewPortForward") = 0
      /\ Count("Init") = 0
      /\ Count("portForward.Stop") = 0
      /\ Count("signal.Notify") = 0
      /\ ~notified
      /\ gpc = "none"
      /\ goroutines = 0

C6_Witness ==
    /\ dashboardNamespace = "dapr-system"
    /\ Count("fallback_probe") = 1
    /\ Count("print_advisory") = 1
    /\ pc = "exited"

\* C7: at most one tunnel is created, and once its Init has succeeded the
\* main flow stays in the cluster-mode branch until the StopSignal of that
\* tunnel has fired: it never exits, and it returns only from a stopped
\* tunnel.
C7_BlocksUntilStop ==
    /\ Cardinality({i \in At("NewPortForward") : trace[i].ok}) <= 1
    /\ InitSucceeded =>
         /\ pc \in {"go", "announce", "browser", "wait", "done"}
         /\ pc = "done" => /\ portForward.fired = 1
                           /\ portForward.state = "Stopped"
                           /\ portForward.ns = foundNamespace

C7_Witness ==
    /\ InitSucceeded
    /\ pc = "done"
    /\ portForward.fired = 1

\* C8: whenever the process has ended after the subscription of line 102
\* was registered, signal.Stop has run.
C8_SubscriptionStopped ==
    (notified /\ ~Alive) => sigStopped

AvailableCount == Count("print_available")

C10_AnnounceOrdering ==
    /\ [](/\ AvailableCount <= 1
          /\ \A a \in At("print_available") :
               \E i \in At("Init") : i < a /\ trace[i].ok
          /\ InitFailed => AvailableCount = 0
          /\ (kubernetesMode /\ pc \in {"wait", "done"}) => AvailableCount = 1)
    /\ [][(pc \in {"wait", "done"}) => (AvailableCount' = AvailableCount)]_vars

C10_Witness ==
    /\ pc = "wait"
    /\ InitSucceeded
    /\ AvailableCount = 1

\* C11: when browser.OpenURL fails after a successful Init, the run goes on
\* to wait for the StopSignal: it does not exit with status 1, the failure
\* is reported and the URL announced before (same host, same port) is
\* printed again right after it, and Stop is requested only for an
\* interrupt, never for the browser failure.
BrowserFailed == \E i \in At("OpenURL") : ~trace[i].ok

C11_BrowserFailureNonFatal ==
    /\ \A i \in At("OpenURL") :
         /\ InitSucceeded
         /\ \E a \in At("print_available") :
              a < i /\ trace[a].port = trace[i].port
         /\ ~trace[i].ok =>
              /\ Len(trace) >= i + 2
              /\ trace[i + 1].ev = "print_browser_failed"
              /\ trace[i + 2].ev = "print_visit"
              /\ \A a \in At("print_available") :
                   trace[i + 2].port = trace[a].port
         /\ trace[i].ok => Count("print_visit") = 0
    /\ Count("OpenURL") > 0 =>
         /\ pc \in {"wait", "done"}
         /\ exitCode # 1
         /\ pc = "done" => portForward.fired = 1
         /\ Count("portForward.Stop") > 0 => delivered > 0
         /\ portForward.stops = Count("portForward.Stop")

C11_Witness ==
    /\ BrowserFailed
    /\ pc = "wait"
    /\ dashboardLocalPort = 9090
    /\ foundNamespace = "dapr-system"
    /\ trace[Len(trace)] = Ev("print_visit", "", FALSE, 9090)
    /\ Count("portForward.Stop") = 0

\* C12: in cluster mode the standalone launcher is never run, and a failed
\* client construction, a discovery miss, a failed tunnel construction and
\* a failed Init each end the process with status 1; in standalone mode no
\* client is built, no namespace is probed and no subscription, tunnel or
\* goroutine exists.
ClusterFailure ==
    \/ \E i \in At("GetKubeConfigClient") : ~trace[i].ok
    \/ Count("fallback_probe") > 0
    \/ \E i \in At("NewPortForward") : ~trace[i].ok
    \/ InitFailed

ClusterEvents ==
    {"GetKubeConfigClient", "probe", "fallback_probe", "signal.Notify",
     "NewPortForward", "Init", "portForward.Stop", "OpenURL"}

C12_ModesExclusive ==
    /\ kubernetesMode =>
         /\ Count("standalone.Run") = 0
         /\ Count("print_not_installed") = 0
         /\ ClusterFailure => (pc = "exited" /\ exitCode = 1)
    /\ ~kubernetesMode =>
         /\ \A i \in 1..Len(trace) : trace[i].ev \notin ClusterEvents
         /\ namespaces = <<>>
         /\ ~notified
         /\ portForward = NilPortForward
         /\ goroutines = 0

C12_Witness ==
    /\ kubernetesMode
    /\ \E i \in At("GetKubeConfigClient") : ~trace[i].ok
    /\ pc = "exited"
    /\ exitCode = 1

\* C13: in standalone mode with a valid port, when the launcher returns an
\* error the launcher has run once, the "not found / is Dapr installed"
\* message is the only message and is printed once, nothing of the cluster
\* path happens, and the command returns without a non-zero exit status.
StandaloneFailed == \E i \in At("standalone.Run") : ~trace[i].ok

C13_StandaloneError ==
    /\ Count("standalone.Run") <= 1
    /\ Count("print_not_installed") = (IF StandaloneFailed THEN 1 ELSE 0)
    /\ StandaloneFailed =>
         /\ ~kubernetesMode
         /\ dashboardLocalPort > 0
         /\ trace = <<Ev("standalone.Run", "", FALSE, dashboardLocalPort),
                      Ev("print_not_installed", "", FALSE, 0)>>
         /\ pc = "done"
         /\ exitCode = 0
         /\ namespaces = <<>>
         /\ portForward = NilPortForward

C13_Witness ==
    /\ StandaloneFailed
    /\ pc = "done"
    /\ exitCode = 0
    /\ Count("print_not_installed") = 1

\* C15: Init is called at most once, and when it returns an error the
\* process exits with status 1 right after reporting it: no second Init,
\* no Stop, no goroutine, no "dashboard available" message and no browser.
C15_InitOnceFatal ==
    /\ Count("Init") <= 1
    /\ InitFailed =>
         /\ pc = "exited"
         /\ exitCode = 1
         /\ trace[Len(trace) - 1].ev = "Init"
         /\ trace[Len(trace)].ev = "print_init_failed"
         /\ Count("portForward.Stop") = 0
         /\ portForward.stops = 0
         /\ portForward.state = "Created"
         /\ gpc = "none"
         /\ goroutines = 0
         /\ Count("print_available") = 0
         /\ Count("OpenURL") = 0

C15_Witness ==
    /\ InitFailed
    /\ pc = "exited"
    /\ exitCode = 1
    /\ delivered > 0

\* C17: Run starts at most one goroutine and only after a successful Init;
\* the program calls Stop at most once, however many interrupts are
\* delivered, and only on a tunnel whose Init succeeded before the call.
C17_OneGoroutineOneStop ==
    /\ goroutines <= 1
    /\ (goroutines = 1) = (gpc # "none")
    /\ goroutines = 1 => InitSucceeded
    /\ Count("portForward.Stop") <= 1
    /\ \A s \in At("portForward.Stop") :
         /\ \E i \in At("Init") : i < s /\ trace[i].ok
         /\ gpc = "done"
         /\ delivered >= 1
    /\ gpc = "done" => Count("portForward.Stop") = 1

C17_Witness ==
    /\ delivered = MaxInterrupts
    /\ delivered >= 2
    /\ signals = 1
    /\ gpc = "done"
    /\ Count("portForward.Stop") = 1

\* C18: with the version flag set the run prints the version and exits
\* with status 0 and does nothing else, whatever the port (0 and negative
\* included) and in both modes: no port message, no client, no probe, no
\* tunnel, no standalone launcher.
C18_VersionFirst ==
    dashboardVersion =>
      /\ pc \in {"start", "exited"}
      /\ pc = "start" => (trace = <<>> /\ exitCode = -1)
      /\ pc = "exited" =>
           /\ exitCode = 0
           /\ trace = <<Ev("print_version", "", TRUE, 0)>>
      /\ namespaces = <<>>
      /\ ~notified
      /\ portForward = NilPortForward
      /\ goroutines = 0

C18_Witness ==
    /\ dashboardVersion
    /\ dashboardLocalPort = -1
    /\ kubernetesMode
    /\ pc = "exited"
    /\ exitCode = 0

\* C19: the standalone launcher is only ever run with a positive port; in
\* standalone mode with the version flag unset and a port of 0 or less the
\* launcher is never run and the process exits with status 1.
C19_StandalonePortValidated ==
    /\ \A i \in At("standalone.Run") : trace[i].port > 0
    /\ (~kubernetesMode /\ ~dashboardVersion /\ dashboardLocalPort <= 0) =>
         /\ Count("standalone.Run") = 0
         /\ pc \in {"start", "port", "exited"}
         /\ pc = "exited" =>
              /\ exitCode = 1
              /\ trace = <<Ev("print_invalid_port", "", FALSE,
                              dashboardLocalPort)>>

C19_Witness ==
    /\ ~kubernetesMode
    /\ ~dashboardVersion
    /\ dashboardLocalPort = -1
    /\ pc = "exited"
    /\ exitCode = 1

\* C14: with a fair goroutine and a main flow that goes on, an interrupt
\* that sits in the channel while the tunnel is running (as it does right
\* after its delivery) leads to the goroutine's Stop, the firing of the
\* StopSignal and the return of Run with status 0; after a successful Init
\* the run never ends with status 1.
C14_InterruptEndsRun ==
    /\ (portForward.state = "Running" /\ signals > 0)
         ~> (/\ pc = "done"
             /\ exitCode = 0
             /\ sigStopped
             /\ portForward.fired = 1
             /\ Count("portForward.Stop") = 1)
    /\ [](InitSucceeded => exitCode # 1)

C14_Witness ==
    /\ pc = "done"
    /\ exitCode = 0
    /\ delivered = 1
    /\ signals = 0
    /\ gpc = "done"
    /\ Count("portForward.Stop") = 1

\* C16: an interrupt delivered after signal.Notify and before the goroutine
\* exists does not end the process and stays in the one-slot buffer; a
\* buffered signal leaves the buffer only through the goroutine's receive;
\* and the run then ends either in the exit of a failed NewPortForward or
\* Init, or, Init having succeeded, in the return of Run after the
\* goroutine's Stop.
C16_EarlyInterruptKept ==
    /\ []((pc \in {"newpf", "init", "go"} /\ delivered > 0) =>
            (signals = 1 /\ exitCode = -1 /\ gpc = "none"))
    /\ [][(signals' < signals) => (gpc = "recv" /\ gpc' = "stop")]_vars
    /\ (pc \in {"newpf", "init", "go"} /\ signals > 0)
         ~> (\/ (pc = "exited" /\ exitCode = 1 /\ ~InitSucceeded)
             \/ (/\ pc = "done"
                 /\ exitCode = 0
                 /\ InitSucceeded
                 /\ portForward.fired = 1
                 /\ Count("portForward.Stop") = 1))

C16_Witness ==
    /\ pc = "go"
    /\ InitSucceeded
    /\ gpc = "none"
    /\ delivered = 1
    /\ signals = 1
====
